---- MODULE Spec2Model ----
(***************************************************************************)
(* A model of arc-solver.py: the dataset digest (digest_training_data),    *)
(* the strict colour-permutation inference (infer_color_permutation_csp),  *)
(* the positional colour-mapping baseline (solve_arc_task_baseline) and    *)
(* the solver entry point (csp_solver).                                    *)
(*                                                                         *)
(* A grid is a sequence of rows, each row a sequence of colours, as in the *)
(* JSON the program reads.  Python's None is the empty tuple None and a    *)
(* present value v is the one-element tuple Some(v).                       *)
(***************************************************************************)
EXTENDS Integers, Sequences, FiniteSets, TLC

VARIABLES corpus, train_pairs, test_input, global_color,
          pc, csp_map, color_map, outcome, prediction

vars == <<corpus, train_pairs, test_input, global_color,
          pc, csp_map, color_map, outcome, prediction>>

----------------------------------------------------------------------------
(* Bounds of the model.                                                    *)

\* Longest generated list of training pairs.
MaxPairs == 2
\* Cells of one generated task: all its training grids plus its test input.
MaxCells == 5
\* Files of a generated training folder, and output cells in all of them.
MaxFiles == 2
MaxCorpusCells == 3

\* The colours the program knows: range(10).
NumColors == 10
Colors == 0..(NumColors - 1)
\* Colours of the generated grids; the named example tasks use others too.
Palette == {0, 1}

None == <<>>
Some(v) == <<v>>

----------------------------------------------------------------------------
(* numpy helpers, as far as the program uses them.                         *)

\* np.array(grid).shape: [] is (0,), [[]] is (1, 0).
Shape(g) == IF Len(g) = 0 THEN <<0>> ELSE <<Len(g), Len(g[1])>>

\* np.array(grid).size
Size(g) == IF Len(g) = 0 THEN 0 ELSE Len(g) * Len(g[1])

\* np.array(grid).ravel(): the cells in row-major order.
RECURSIVE RavelFrom(_, _)
RavelFrom(g, r) == IF r > Len(g) THEN <<>> ELSE g[r] \o RavelFrom(g, r + 1)
Ravel(g) == RavelFrom(g, 1)

\* np.unique(grid): the distinct cell values, ascending.
RECURSIVE SortedSeq(_)
SortedSeq(S) ==
    IF S = {} THEN <<>>
    ELSE LET m == CHOOSE x \in S : \A y \in S : x <= y
         IN  <<m>> \o SortedSeq(S \ {m})
Unique(g) == SortedSeq({Ravel(g)[i] : i \in 1..Len(Ravel(g))})

\* The elementwise image of a grid under f, a function on the colours: what
\* np.vectorize(f)(arr).tolist() returns for an array that has cells.
MapGrid(f, g) == [r \in 1..Len(g) |-> [c \in 1..Len(g[r]) |-> f[g[r][c]]]]

\* np.full_like(arr, v).tolist()
FullLike(g, v) == [r \in 1..Len(g) |-> [c \in 1..Len(g[r]) |-> v]]

\* np.vectorize(f)(arr) raises ValueError on an array of size 0 (no otypes set).
VectorizeRaises(g) == Size(g) = 0

\* dict.get(key, default)
Get(d, k, default) == IF k \in DOMAIN d THEN d[k] ELSE default

\* d[k] = v
Put(d, k, v) == [x \in (DOMAIN d) \cup {k} |-> IF x = k THEN v ELSE d[x]]

EmptyDict == [x \in {} |-> 0]

Min(a, b) == IF a <= b THEN a ELSE b

----------------------------------------------------------------------------
(* digest_training_data                                                    *)

\* Cells of grid g that hold colour u: the count np.unique reports for u.
CountOf(g, u) == Cardinality({i \in 1..Len(Ravel(g)) : Ravel(g)[i] = u})

\* color_counts[int(u)] += int(c) for the colours of one output grid.
AddCounts(counts, out) == [u \in Colors |-> counts[u] + CountOf(out, u)]

\* for pair in data.get("train", [])
RECURSIVE DigestPairs(_, _, _)
DigestPairs(counts, pairs, k) ==
    IF k > Len(pairs) THEN counts
    ELSE DigestPairs(AddCounts(counts, pairs[k].output), pairs, k + 1)

\* for file in folder.glob("*.json")
RECURSIVE DigestFiles(_, _, _)
DigestFiles(counts, folder, k) ==
    IF k > Len(folder) THEN counts
    ELSE DigestFiles(DigestPairs(counts, folder[k], 1), folder, k + 1)

color_counts(folder) == DigestFiles([u \in Colors |-> 0], folder, 1)

\* Faulty variant of MaxStep: a later key with an equal count replaces the
\* best one, so ties go to the largest colour.
MaxStepLastWins(counts, best, k) == IF counts[k] >= counts[best] THEN k ELSE best

\* One step of max(color_counts, key=color_counts.get): a later key replaces
\* the best one only when its count is strictly greater.
MaxStep(counts, best, k) == IF counts[k] > counts[best] THEN k ELSE best

RECURSIVE MaxKeyFrom(_, _, _)
MaxKeyFrom(counts, k, best) ==
    IF k > NumColors - 1 THEN best
    ELSE MaxKeyFrom(counts, k + 1, MaxStep(counts, best, k))

digest_training_data(folder) == MaxKeyFrom(color_counts(folder), 1, 0)

----------------------------------------------------------------------------
(* infer_color_permutation_csp                                             *)

\* Faulty variant of CellStep: the injectivity check is missing.
CellStepNoInjectivity(st, x, y, enforce_injective) ==
    IF x \in DOMAIN st.mapping /\ st.mapping[x] # y
    THEN [st EXCEPT !.conflict = TRUE]
    ELSE IF x \notin DOMAIN st.mapping
    THEN [mapping |-> Put(st.mapping, x, y),
          used_targets |-> st.used_targets \cup {y},
          conflict |-> FALSE]
    ELSE st

\* Faulty variant of CellStep: a second value for a key overwrites the first
\* instead of ending the inference.
CellStepOverwrite(st, x, y, enforce_injective) ==
    IF enforce_injective /\ x \notin DOMAIN st.mapping /\ y \in st.used_targets
    THEN [st EXCEPT !.conflict = TRUE]
    ELSE [mapping |-> Put(st.mapping, x, y),
          used_targets |-> IF enforce_injective
                           THEN st.used_targets \cup {y}
                           ELSE st.used_targets,
          conflict |-> FALSE]

\* The body of the cell loop for one aligned (x, y).  st holds the locals
\* mapping and used_targets, and conflict once a return None was taken.
CellStep(st, x, y, enforce_injective) ==
    IF x \in DOMAIN st.mapping /\ st.mapping[x] # y
    THEN [st EXCEPT !.conflict = TRUE]
    ELSE IF enforce_injective /\ x \notin DOMAIN st.mapping /\ y \in st.used_targets
    THEN [st EXCEPT !.conflict = TRUE]
    ELSE IF x \notin DOMAIN st.mapping
    THEN [mapping |-> Put(st.mapping, x, y),
          used_targets |-> IF enforce_injective
                           THEN st.used_targets \cup {y}
                           ELSE st.used_targets,
          conflict |-> FALSE]
    ELSE st

\* for x, y in zip(a.ravel(), b.ravel())
RECURSIVE ScanCells(_, _, _, _, _)
ScanCells(st, xs, ys, i, enforce_injective) ==
    IF st.conflict \/ i > Min(Len(xs), Len(ys)) THEN st
    ELSE ScanCells(CellStep(st, xs[i], ys[i], enforce_injective),
                   xs, ys, i + 1, enforce_injective)

\* Faulty variant of SkipPair: compares the number of cells, not the shape.
SkipPairBySize(pair) == Size(pair.input) # Size(pair.output)

\* if a.shape != b.shape: continue
SkipPair(pair) == Shape(pair.input) # Shape(pair.output)

\* for pair in train_pairs
RECURSIVE ScanPairs(_, _, _, _)
ScanPairs(st, pairs, k, enforce_injective) ==
    IF st.conflict \/ k > Len(pairs) THEN st
    ELSE IF SkipPair(pairs[k])
    THEN ScanPairs(st, pairs, k + 1, enforce_injective)
    ELSE ScanPairs(ScanCells(st, Ravel(pairs[k].input), Ravel(pairs[k].output),
                             1, enforce_injective),
                   pairs, k + 1, enforce_injective)

\* Faulty variant of InferResult: the map built before a conflict is returned.
InferResultKeepsPartial(st) ==
    IF DOMAIN st.mapping # {} THEN Some(st.mapping) ELSE None

\* return mapping if mapping else None
InferResult(st) ==
    IF st.conflict THEN None
    ELSE IF DOMAIN st.mapping # {} THEN Some(st.mapping) ELSE None

infer_color_permutation_csp(pairs, enforce_injective) ==
    InferResult(ScanPairs([mapping |-> EmptyDict, used_targets |-> {},
                           conflict |-> FALSE],
                          pairs, 1, enforce_injective))

----------------------------------------------------------------------------
(* solve_arc_task_baseline                                                 *)

\* for i, o in zip(in_colors, out_colors): color_map[i] = o
RECURSIVE ZipAssign(_, _, _, _)
ZipAssign(cm, ins, outs, i) ==
    IF i > Min(Len(ins), Len(outs)) THEN cm
    ELSE ZipAssign(Put(cm, ins[i], outs[i]), ins, outs, i + 1)

\* Faulty variant of LearnPair: a pair with mismatched shapes is skipped, as
\* the strict inference does.
LearnPairMatchedOnly(cm, pair) ==
    IF Shape(pair.input) # Shape(pair.output) THEN cm
    ELSE ZipAssign(cm, Unique(pair.input), Unique(pair.output), 1)

LearnPair(cm, pair) == ZipAssign(cm, Unique(pair.input), Unique(pair.output), 1)

\* for pair in train_pairs
RECURSIVE LearnPairs(_, _, _)
LearnPairs(cm, pairs, k) ==
    IF k > Len(pairs) THEN cm
    ELSE LearnPairs(LearnPair(cm, pairs[k]), pairs, k + 1)

learned_color_map(pairs) == LearnPairs(EmptyDict, pairs, 1)

\* Faulty variant of BaselineCell: the prior is tested for truth, so the
\* prior 0 counts as absent.
BaselineCellTruthyPrior(cm, prior, c) ==
    Get(cm, c, IF prior # None /\ prior[1] # 0 THEN prior[1] ELSE c)

\* color_map.get(c, global_color if global_color is not None else c)
BaselineCell(cm, prior, c) == Get(cm, c, IF prior # None THEN prior[1] ELSE c)

\* np.full_like(input_grid, global_color if global_color is not None else 0)
BaselineFill(grid, prior) == FullLike(grid, IF prior # None THEN prior[1] ELSE 0)

solve_arc_task_baseline(pairs, grid, prior) ==
    LET cm == learned_color_map(pairs)
    IN  IF VectorizeRaises(grid)
        THEN BaselineFill(grid, prior)
        ELSE MapGrid([c \in Colors |-> BaselineCell(cm, prior, c)], grid)

----------------------------------------------------------------------------
(* csp_solver                                                              *)

\* if csp_map:
Truthy(m) == m # None /\ DOMAIN m[1] # {}

\* Faulty variant of CspCell: a colour that is no key becomes 0.
CspCellDefaultZero(m, c) == Get(m, c, 0)

\* csp_map.get(int(c), int(c))
CspCell(m, c) == Get(m, c, c)

----------------------------------------------------------------------------
(* The inputs: tasks (training pairs and a test input) and training        *)
(* folders.  Generated grids are rectangular with colours in Palette.      *)

\* All rectangular grids of k >= 1 cells.
GridsOfSize(k) ==
    UNION {[1..r -> [1..(k \div r) -> Palette]] : r \in {d \in 1..k : k % d = 0}}

\* The grids without cells: [] and [[]].
EmptyGrids == {<<>>, << <<>> >>}

GridsWithin(n) == EmptyGrids \cup UNION {GridsOfSize(k) : k \in 1..n}

PairsOfSize(t) ==
    UNION {{[input |-> a, output |-> b] : a \in GridsOfSize(i), b \in GridsOfSize(t - i)}
           : i \in 1..(t - 1)}

PairCells(pair) == Size(pair.input) + Size(pair.output)

RECURSIVE ListCells(_)
ListCells(pairs) ==
    IF pairs = <<>> THEN 0 ELSE PairCells(Head(pairs)) + ListCells(Tail(pairs))

\* Lists of at most n training pairs with at most budget cells in all.
RECURSIVE TrainLists(_, _)
TrainLists(n, budget) ==
    {<<>>} \cup
    (IF n = 0 THEN {}
     ELSE UNION {{<<p>> \o rest : p \in PairsOfSize(t),
                                  rest \in TrainLists(n - 1, budget - t)}
                 : t \in 2..budget})

GeneratedTasks ==
    UNION {{[train |-> l, test |-> g] : g \in GridsWithin(MaxCells - ListCells(l))}
           : l \in TrainLists(MaxPairs, MaxCells)}

Pair(a, b) == [input |-> a, output |-> b]

\* Tasks named in the specification, and tasks with empty or column grids.
ExampleTasks ==
    { [train |-> << Pair(<< <<1, 2>>, <<2, 1>> >>, << <<3, 4>>, <<4, 3>> >>) >>,
       test  |-> << <<1, 1>>, <<2, 2>> >>],
      [train |-> << Pair(<< <<1, 2>>, <<2, 1>> >>, << <<3, 4>>, <<4, 3>> >>) >>,
       test  |-> << <<1, 5>>, <<2, 2>> >>],
      [train |-> << Pair(<< <<1>> >>, << <<3>> >>), Pair(<< <<1>> >>, << <<5>> >>) >>,
       test  |-> << <<1, 2>> >>],
      [train |-> << Pair(<< <<1>> >>, << <<3>> >>), Pair(<< <<2>> >>, << <<3>> >>) >>,
       test  |-> << <<1, 2>> >>],
      [train |-> << Pair(<< <<8, 9>> >>, << <<9, 0>> >>) >>,
       test  |-> << <<9, 7>> >>],
      [train |-> << Pair(<<>>, <<>>), Pair(<< <<>> >>, <<>>) >>,
       test  |-> << <<4>> >>],
      [train |-> << Pair(<< <<1>> >>, <<>>), Pair(<< <<1, 2>> >>, << <<6>>, <<7>> >>) >>,
       test  |-> << <<1>>, <<2>> >>],
      [train |-> << Pair(<< <<1, 2>> >>, << <<6>>, <<7>> >>),
                    Pair(<< <<1, 2>> >>, << <<3, 4>> >>) >>,
       test  |-> << <<2, 1>> >>],
      [train |-> << Pair(<< <<1, 2, 3>> >>, << <<5>>, <<6>> >>),
                    Pair(<< <<2, 1>> >>, << <<7, 7>> >>) >>,
       test  |-> << <<1, 2, 3>> >>],
      [train |-> <<>>, test |-> << <<0, 3>> >>] }

\* Training folders: a folder is a sequence of files, a file the list of
\* training pairs under its "train" key.  The digest reads outputs only, so
\* generated files have a fixed input.
FilePairsOfSize(k) == {Pair(<< <<0>> >>, b) : b \in GridsOfSize(k)}

RECURSIVE OutCells(_)
OutCells(pairs) ==
    IF pairs = <<>> THEN 0 ELSE Size(Head(pairs).output) + OutCells(Tail(pairs))

RECURSIVE Files(_, _)
Files(n, budget) ==
    {<<>>} \cup
    (IF n = 0 THEN {}
     ELSE UNION {{<<p>> \o rest : p \in FilePairsOfSize(k),
                                  rest \in Files(n - 1, budget - k)}
                 : k \in 1..budget})

RECURSIVE Folders(_, _)
Folders(n, budget) ==
    {<<>>} \cup
    (IF n = 0 THEN {}
     ELSE UNION {{<<f>> \o rest : rest \in Folders(n - 1, budget - OutCells(f))}
                 : f \in Files(MaxPairs, budget)})

\* The folder of the specification's example: output colours 0, 3 and 7
\* occur 5, 9 and 2 times over two files.
ExampleFolder ==
    << << Pair(<< <<1>> >>, << <<0, 0, 0>>, <<3, 3, 3>>, <<3, 3, 7>> >>) >>,
       << Pair(<< <<1>> >>, << <<0, 0, 3, 3>> >>),
          Pair(<< <<2, 2>> >>, << <<3, 3, 7>> >>) >> >>

SmallFolders == { <<>>, << << Pair(<< <<0>> >>, << <<1>> >>) >> >>, ExampleFolder }

----------------------------------------------------------------------------
(* The program as a state machine.                                         *)

Start(tasks, folders) ==
    /\ corpus \in folders
    /\ \E t \in tasks : train_pairs = t.train /\ test_input = t.test
    /\ global_color = None
    /\ pc = "start"
    /\ csp_map = None
    /\ color_map = None
    /\ outcome = "pending"
    /\ prediction = <<>>

\* Many tasks, few training folders.
Init == Start(GeneratedTasks \cup ExampleTasks, SmallFolders)

\* Few tasks, many training folders.
InitDigest == Start(ExampleTasks, Folders(MaxFiles, MaxCorpusCells) \cup SmallFolders)

\* __main__: global_color = digest_training_data(training_path)
DigestTrainingData ==
    /\ pc = "start"
    /\ global_color' = Some(digest_training_data(corpus))
    /\ pc' = "digested"
    /\ UNCHANGED <<corpus, train_pairs, test_input, csp_map, color_map,
                   outcome, prediction>>

\* csp_solver(train_pairs, test_input, global_color), called with the digest's
\* colour or with the default None.
CspSolver ==
    /\ pc \in {"start", "digested"}
    /\ pc' = "done"
    /\ LET m == infer_color_permutation_csp(train_pairs, TRUE)
       IN  /\ csp_map' = m
           /\ IF Truthy(m)
              THEN /\ color_map' = None
                   /\ IF VectorizeRaises(test_input)
                      THEN outcome' = "raised" /\ prediction' = <<>>
                      ELSE /\ outcome' = "returned"
                           /\ prediction' = MapGrid([c \in Colors |-> CspCell(m[1], c)],
                                                   test_input)
              ELSE /\ color_map' = Some(learned_color_map(train_pairs))
                   /\ outcome' = "returned"
                   /\ prediction' = solve_arc_task_baseline(train_pairs, test_input,
                                                            global_color)
    /\ UNCHANGED <<corpus, train_pairs, test_input, global_color>>

Next == DigestTrainingData \/ CspSolver

Spec == Init /\ [][Next]_vars

SpecDigest == InitDigest /\ [][Next]_vars

----------------------------------------------------------------------------
(* Vocabulary of the properties, stated on the data and not through the    *)
(* operators above.                                                        *)

Done == pc = "done"

Cols(g) == IF Len(g) = 0 THEN 0 ELSE Len(g[1])

Cells(g) == {<<r, c>> : r \in 1..Len(g), c \in 1..Cols(g)}

ColoursOf(g) == {g[rc[1]][rc[2]] : rc \in Cells(g)}

\* Same number of rows and the same length of every row.
SameShape(g, h) ==
    /\ Len(g) = Len(h)
    /\ \A r \in 1..Len(g) : Len(g[r]) = Len(h[r])

MatchedPair(p) == SameShape(p.input, p.output)

MatchedOnly(pairs) == SelectSeq(pairs, MatchedPair)

\* The aligned (input colour, output colour) observations of the training
\* pairs whose shapes match.
Observations(pairs) ==
    UNION {{<<pairs[j].input[rc[1]][rc[2]], pairs[j].output[rc[1]][rc[2]]>>
            : rc \in Cells(pairs[j].input)}
           : j \in {i \in 1..Len(pairs) : MatchedPair(pairs[i])}}

Conflicting(pairs) ==
    \E o1, o2 \in Observations(pairs) :
        \/ o1[1] = o2[1] /\ o1[2] # o2[2]
        \/ o1[1] # o2[1] /\ o1[2] = o2[2]

TrainInputColours(pairs) == UNION {ColoursOf(pairs[j].input) : j \in 1..Len(pairs)}

\* The test input with every cell v replaced by f[v] when v is a key of f and
\* by other[v] otherwise.
Relabelled(g, f, other) ==
    [r \in 1..Len(g) |->
        [c \in 1..Len(g[r]) |->
            IF g[r][c] \in DOMAIN f THEN f[g[r][c]] ELSE other[g[r][c]]]]

Keep == [v \in Colors |-> v]

----------------------------------------------------------------------------
(* C1 *)

\* C1: for every list of training pairs, every test input grid and every
\* prior, csp_solver returns a grid (never an error) with as many rows as the
\* test input and the same length of every row.
C1_SolveReturnsTestShape ==
    Done => outcome = "returned" /\ SameShape(prediction, test_input)

----------------------------------------------------------------------------
(* C2 *)

\* C2: when infer_color_permutation_csp (injectivity enforced) returns a map,
\* its keys are exactly the input colours of the training pairs whose shapes
\* match, every aligned observation (x, y) of those pairs has map[x] = y, and
\* no two distinct keys have the same value.
C2_MapConsistentWithEvidence ==
    (Done /\ csp_map # None) =>
        LET m == csp_map[1]
            obs == Observations(train_pairs)
        IN  /\ DOMAIN m = {o[1] : o \in obs}
            /\ \A o \in obs : m[o[1]] = o[2]
            /\ \A a, b \in DOMAIN m : a # b => m[a] # m[b]

\* A map with two keys learnt from two different training pairs.
C2_Witness ==
    /\ Done
    /\ csp_map # None
    /\ Len(train_pairs) = 2
    /\ MatchedPair(train_pairs[1]) /\ MatchedPair(train_pairs[2])
    /\ ColoursOf(train_pairs[1].input) # ColoursOf(train_pairs[2].input)
    /\ Cardinality(DOMAIN csp_map[1]) = 2

----------------------------------------------------------------------------
(* C3 *)

\* C3: when strict inference succeeds with map m, csp_solver returns the test
\* grid with every cell of a key colour c replaced by m[c] and every other
\* cell unchanged, without consulting the fallback and whatever the prior;
\* the pair [[1,2],[2,1]] -> [[3,4],[4,3]] gives {1->3, 2->4} and the test
\* [[1,1],[2,2]] gives [[3,3],[4,4]].
C3_StrictMapApplied ==
    /\ (Done /\ csp_map # None) =>
           /\ outcome = "returned"
           /\ color_map = None
           /\ prediction = Relabelled(test_input, csp_map[1], Keep)
    /\ (Done /\ train_pairs = << Pair(<< <<1, 2>>, <<2, 1>> >>, << <<3, 4>>, <<4, 3>> >>) >>
             /\ test_input = << <<1, 1>>, <<2, 2>> >>) =>
           /\ csp_map = Some((1 :> 3) @@ (2 :> 4))
           /\ prediction = << <<3, 3>>, <<4, 4>> >>

----------------------------------------------------------------------------
(* C4 *)

\* C4: when the same-shape training evidence is conflicting (an input colour
\* aligned with two output colours, or two input colours aligned with one
\* output colour), strict inference returns None and the result of csp_solver
\* is the result of solve_arc_task_baseline on the same arguments.
C4_ConflictFallsBack ==
    (Done /\ Conflicting(train_pairs)) =>
        /\ csp_map = None
        /\ color_map # None
        /\ outcome = "returned"
        /\ prediction = Relabelled(test_input, color_map[1],
                                   [v \in Colors |-> IF global_color # None
                                                      THEN global_color[1] ELSE v])
        /\ prediction = solve_arc_task_baseline(train_pairs, test_input, global_color)

\* Pair A implies 1->3 and pair B implies 1->5: the fallback's answer for
\* the test [[1,2]] under the prior 3.
C4_Witness ==
    /\ Done
    /\ train_pairs = << Pair(<< <<1>> >>, << <<3>> >>), Pair(<< <<1>> >>, << <<5>> >>) >>
    /\ global_color = Some(3)
    /\ csp_map = None
    /\ prediction = << <<5, 3>> >>

----------------------------------------------------------------------------
(* C5 *)

\* Every training pair has equal shapes and output = (input + k) mod 10.
Additive(pairs, k) ==
    \A j \in 1..Len(pairs) :
        /\ MatchedPair(pairs[j])
        /\ \A rc \in Cells(pairs[j].input) :
               pairs[j].output[rc[1]][rc[2]] = (pairs[j].input[rc[1]][rc[2]] + k) % 10

\* The training grids and the test input have one common shape.
OneShape(pairs, g) == \A j \in 1..Len(pairs) : SameShape(pairs[j].input, g)

Shifted(g, k) == [r \in 1..Len(g) |-> [c \in 1..Len(g[r]) |-> (g[r][c] + k) % 10]]

DiffCase(k) == Done /\ Len(train_pairs) >= 1 /\ Additive(train_pairs, k)
                    /\ OneShape(train_pairs, test_input)

\* C5 as claimed: if every training pair has equal shapes and satisfies
\* output = (input + k) mod 10 for one k, then for every test input of that
\* shape, whatever colours it holds, csp_solver returns (test_input + k) mod 10.
C5_DiffTransformExact ==
    \A k \in 0..9 :
        DiffCase(k) => outcome = "returned" /\ prediction = Shifted(test_input, k)

\* C5 as amended: under the same hypotheses csp_solver returns the test input
\* with every cell whose colour occurs in a training input replaced by
\* (colour + k) mod 10 and every other cell unchanged.
C5_DiffTransformOnSeenColours ==
    \A k \in 0..9 :
        DiffCase(k) =>
            /\ outcome = "returned"
            /\ SameShape(prediction, test_input)
            /\ \A rc \in Cells(test_input) :
                   LET v == test_input[rc[1]][rc[2]]
                   IN  prediction[rc[1]][rc[2]] =
                           IF v \in TrainInputColours(train_pairs)
                           THEN (v + k) % 10 ELSE v

\* [[8,9]] -> [[9,0]] is k = 1 with a wrap-around; the test [[9,7]] holds a
\* colour seen in training and one never seen.
C5_Witness ==
    /\ DiffCase(1)
    /\ train_pairs = << Pair(<< <<8, 9>> >>, << <<9, 0>> >>) >>
    /\ test_input = << <<9, 7>> >>
    /\ prediction = << <<0, 7>> >>

----------------------------------------------------------------------------
(* C6 *)

NoEvidence(pairs) == Observations(pairs) = {}

\* C6: strict inference on a training list gives the same outcome as on the
\* list with the shape-mismatched pairs removed; if no pair contributes
\* evidence, strict inference returns None and csp_solver returns the
\* fallback's prediction, which has the test input's shape.
C6_MismatchedPairsSkipped ==
    Done =>
        /\ csp_map = infer_color_permutation_csp(MatchedOnly(train_pairs), TRUE)
        /\ (csp_map # None =>
               DOMAIN csp_map[1] = TrainInputColours(MatchedOnly(train_pairs)))
        /\ NoEvidence(train_pairs) =>
               /\ csp_map = None
               /\ color_map # None
               /\ outcome = "returned"
               /\ SameShape(prediction, test_input)

\* A 1x2 input with a 2x1 output (same size, other shape) before a matching
\* pair: the map comes from the second pair alone.
C6_Witness ==
    /\ Done
    /\ Len(train_pairs) = 2
    /\ ~MatchedPair(train_pairs[1])
    /\ Size(train_pairs[1].input) = Size(train_pairs[1].output)
    /\ MatchedPair(train_pairs[2])
    /\ csp_map = Some((1 :> 3) @@ (2 :> 4))
    /\ prediction = << <<4, 3>> >>

----------------------------------------------------------------------------
(* C7 *)

\* The cells of colour u in the training outputs of all files of a folder.
OutputCellsOf(folder, u) ==
    UNION {UNION {{<<f, j, rc>> : rc \in {x \in Cells(folder[f][j].output) :
                                           folder[f][j].output[x[1]][x[2]] = u}}
                  : j \in 1..Len(folder[f])}
           : f \in 1..Len(folder)}

Frequency(folder, u) == Cardinality(OutputCellsOf(folder, u))

Uniform(g, v) == \A rc \in Cells(g) : g[rc[1]][rc[2]] = v

\* The colour fill took place: the fallback ran with a prior and no colour of
\* the test input is a key of the fallback map (or the mapping step failed).
FillCase ==
    /\ Done /\ color_map # None /\ global_color # None
    /\ ColoursOf(test_input) \cap DOMAIN color_map[1] = {}

\* C7: the dominant colour computed from the training outputs has the highest
\* aggregate cell count over all training output grids, ties going to the
\* smallest colour (frequencies {0:5, 3:9, 7:2} give 3), and the
\* dominant-colour fill produces a grid of the test input's shape filled
\* entirely with that colour.
C7_DominantColourAndFill ==
    /\ global_color # None =>
           \A u \in Colors :
                  /\ Frequency(corpus, u) <= Frequency(corpus, global_color[1])
                  /\ Frequency(corpus, u) = Frequency(corpus, global_color[1])
                         => global_color[1] <= u
    /\ (global_color # None /\ Frequency(corpus, 0) = 5 /\ Frequency(corpus, 3) = 9
                             /\ Frequency(corpus, 7) = 2
                             /\ \A u \in Colors \ {0, 3, 7} : Frequency(corpus, u) = 0)
           => global_color = Some(3)
    /\ FillCase =>
           /\ outcome = "returned"
           /\ SameShape(prediction, test_input)
           /\ Uniform(prediction, global_color[1])

\* The example folder's dominant colour 3 fills the 1x2 test input [[0,3]].
C7_Witness ==
    /\ FillCase
    /\ Frequency(corpus, 0) = 5 /\ Frequency(corpus, 3) = 9 /\ Frequency(corpus, 7) = 2
    /\ global_color = Some(3)
    /\ test_input = << <<0, 3>> >>
    /\ prediction = << <<3, 3>> >>

----------------------------------------------------------------------------
(* C8 *)

IndexPerms(n) == {f \in [1..n -> 1..n] : \A i, j \in 1..n : i # j => f[i] # f[j]}

\* Grid g with its cells reordered by the permutation s of the cell indices.
PermuteCells(g, s) ==
    [r \in 1..Len(g) |->
        [c \in 1..Len(g[r]) |->
            LET i == s[(r - 1) * Cols(g) + c]
            IN  g[((i - 1) \div Cols(g)) + 1][((i - 1) % Cols(g)) + 1]]]

\* A pair with one reordering of the cells applied to input and output alike.
PairVariants(p) ==
    IF MatchedPair(p)
    THEN {Pair(PermuteCells(p.input, s), PermuteCells(p.output, s))
          : s \in IndexPerms(Size(p.input))}
    ELSE {p}

RECURSIVE CellReorderings(_)
CellReorderings(pairs) ==
    IF pairs = <<>> THEN {<<>>}
    ELSE {<<v>> \o rest : v \in PairVariants(Head(pairs)),
                          rest \in CellReorderings(Tail(pairs))}

Reorderings(pairs) ==
    {[i \in 1..Len(pairs) |-> l[s[i]]]
     : s \in IndexPerms(Len(pairs)), l \in CellReorderings(pairs)}

\* C8: for any reordering of the training pairs, and of the cells within a
\* pair (the same for input and output), infer_color_permutation_csp fails on
\* the reordered data iff it fails on the original, and on success returns
\* the same map.
C8_OrderIndependent ==
    Done => \A r \in Reorderings(train_pairs) :
                infer_color_permutation_csp(r, TRUE) = csp_map

\* Two different matching pairs that disagree on a colour: either order meets
\* the conflict.
C8_Witness ==
    /\ Done
    /\ Len(train_pairs) = 2
    /\ train_pairs[1] # train_pairs[2]
    /\ MatchedPair(train_pairs[1]) /\ MatchedPair(train_pairs[2])
    /\ Cardinality(Reorderings(train_pairs)) = 2
    /\ \E o1, o2 \in Observations(train_pairs) : o1[1] = o2[1] /\ o1[2] # o2[2]
    /\ csp_map = None

----------------------------------------------------------------------------
(* C9 *)

\* The rank of x among the colours S: 1 for the smallest.
Rank(S, x) == Cardinality({y \in S : y <= x})

\* The keys training pair p records: its input colours of rank at most the
\* number of its output colours.
PairKeys(p) ==
    {x \in ColoursOf(p.input) :
        Rank(ColoursOf(p.input), x) <= Cardinality(ColoursOf(p.output))}

\* The value p records for its key x: the output colour of the same rank.
PairValue(p, x) ==
    CHOOSE y \in ColoursOf(p.output) :
        Rank(ColoursOf(p.output), y) = Rank(ColoursOf(p.input), x)

\* The last training pair that records the key x.
LastPairWith(pairs, x) ==
    CHOOSE j \in 1..Len(pairs) :
        /\ x \in PairKeys(pairs[j])
        /\ \A i \in (j + 1)..Len(pairs) : x \notin PairKeys(pairs[i])

\* C9: the fallback colour map is built from every training pair, shapes
\* matching or not, by pairing the i-th smallest distinct input colour with
\* the i-th smallest distinct output colour, up to the shorter of the two
\* colour lists; a key that several pairs record has the value of the pair
\* processed last.
C9_FallbackMapByRank ==
    (Done /\ color_map # None) =>
        LET cm == color_map[1]
        IN  /\ DOMAIN cm = UNION {PairKeys(train_pairs[j]) : j \in 1..Len(train_pairs)}
            /\ \A x \in DOMAIN cm :
                   cm[x] = PairValue(train_pairs[LastPairWith(train_pairs, x)], x)

\* Two pairs record the same key with different values, and a pair with
\* mismatched shapes has more input colours than output colours.
C9_Witness ==
    /\ Done /\ color_map # None
    /\ Len(train_pairs) = 2
    /\ \E x \in PairKeys(train_pairs[1]) \cap PairKeys(train_pairs[2]) :
           /\ PairValue(train_pairs[1], x) # PairValue(train_pairs[2], x)
           /\ color_map[1][x] = PairValue(train_pairs[2], x)
    /\ \E j \in 1..2 :
           /\ ~MatchedPair(train_pairs[j])
           /\ PairKeys(train_pairs[j]) # ColoursOf(train_pairs[j].input)

----------------------------------------------------------------------------
(* C10 *)

\* C10: when the fallback is applied, a test cell whose colour is a key of
\* the fallback map becomes the mapped value; any other cell becomes the
\* prior when one was supplied (0 included) and keeps its colour otherwise.
\* With no training pairs and no prior the result is the test input.
C10_FallbackApplied ==
    (Done /\ color_map # None) =>
        /\ outcome = "returned"
        /\ SameShape(prediction, test_input)
        /\ \A rc \in Cells(test_input) :
               LET v == test_input[rc[1]][rc[2]]
               IN  prediction[rc[1]][rc[2]] =
                       IF v \in DOMAIN color_map[1] THEN color_map[1][v]
                       ELSE IF global_color # None THEN global_color[1]
                       ELSE v
        /\ (train_pairs = <<>> /\ global_color = None) => prediction = test_input

\* The prior 0 replaces a cell of colour 1 that is no key, next to a cell
\* whose colour is a key.
C10_Witness ==
    /\ Done /\ color_map # None
    /\ global_color = Some(0)
    /\ \E rc \in Cells(test_input) :
           /\ test_input[rc[1]][rc[2]] = 1
           /\ 1 \notin DOMAIN color_map[1]
           /\ prediction[rc[1]][rc[2]] = 0
    /\ \E rc \in Cells(test_input) :
           /\ test_input[rc[1]][rc[2]] \in DOMAIN color_map[1]
           /\ prediction[rc[1]][rc[2]] # test_input[rc[1]][rc[2]]

====
